---- MODULE Spec2Model ----
(***************************************************************************)
(* A model of mini-editor (src/main.rs): the text buffer (Buffer), the     *)
(* cursor navigation (get_next_cursor), the edit-command dispatch          *)
(* (apply_command), serialisation (save_to_file) and the event loop of     *)
(* main with its scroll adjustment.                                        *)
(*                                                                         *)
(* A String / Vec<char> is a sequence of one-character strings.  Rust      *)
(* indices are 0-based, TLA+ sequences 1-based: row y of the buffer is     *)
(* data[y+1], column x of a line is line[x+1].                             *)
(***************************************************************************)
EXTENDS Integers, Sequences, FiniteSets, TLC

VARIABLES
    text,             \* the string handed to Buffer::from_string
    data,             \* Buffer.data : Vec<Vec<char>>
    cursor,           \* Cursor {x, y}
    vertical_offset,  \* Display.vertical_offset
    changes,          \* the BufferChanges returned by the last operation
    saved,            \* the string built by save_to_file
    panicked,         \* TRUE once an operation has panicked (process aborted)
    op,               \* name of the last operation applied ("none" before any)
    ch,               \* character argument of the last write_char
    old_data,         \* Buffer.data before the last operation
    old_cursor,       \* the cursor the last operation was called with
    base              \* when a Backspace command follows a Char or Enter
                      \* command: that command, the buffer and the cursor
                      \* before it

vars == <<text, data, cursor, vertical_offset, changes, saved, panicked,
          op, ch, old_data, old_cursor, base>>

----------------------------------------------------------------------------
(* Bounds of the model *)

MaxText == 6    \* longest text handed to from_string
MaxX == 3       \* largest column of an enumerated cursor
MaxY == 4       \* largest row of an enumerated cursor

LF == "\n"
CR == "\r"
SPACE == " "

\* characters of the texts SpecLoad hands to from_string
TextChars == {"a", SPACE, LF, CR}
\* characters of the texts the buffers of SpecBuffer are built from
BufferChars == {"a", "b", LF}
\* characters handed to write_char
Chars == {"a", "b", SPACE, LF}

SeqsUpTo(S, n) == UNION {[1..k -> S] : k \in 0..n}

Texts == SeqsUpTo(TextChars, MaxText)
BufferTexts == SeqsUpTo(BufferChars, MaxText)
Cursors == [x : 0..MaxX, y : 0..MaxY]

Max(a, b) == IF a >= b THEN a ELSE b

----------------------------------------------------------------------------
(* BufferChanges and Cursor *)

ChangesNone == [tag |-> "None", lines |-> <<>>]
ChangesBuffer == [tag |-> "Buffer", lines |-> <<>>]
ChangesLines(v) == [tag |-> "Lines", lines |-> v]

Cursor_new(x, y) == [x |-> x, y |-> y]

----------------------------------------------------------------------------
(* str::lines, as used by Buffer::from_string: split after every LF; a     *)
(* piece that ends in LF loses it and then one CR before it, a last piece  *)
(* without LF is kept as it is; the empty string has no lines.             *)

RECURSIVE FirstLF(_, _)
FirstLF(s, i) ==
    IF i > Len(s) THEN 0
    ELSE IF s[i] = LF THEN i ELSE FirstLF(s, i + 1)

StripCR(l) ==
    IF Len(l) > 0 /\ l[Len(l)] = CR THEN SubSeq(l, 1, Len(l) - 1) ELSE l

RECURSIVE lines(_)
lines(s) ==
    IF s = <<>> THEN <<>>
    ELSE LET i == FirstLF(s, 1) IN
         IF i = 0 THEN <<s>>
         ELSE <<StripCR(SubSeq(s, 1, i - 1))>> \o lines(SubSeq(s, i + 1, Len(s)))

----------------------------------------------------------------------------
(* impl Buffer.  Every operation is a function of the buffer's data and    *)
(* returns the new data (with the BufferChanges where the code returns     *)
(* one).                                                                   *)

Buffer_new == <<>>

\* mutant of from_string: str::split('\n') in place of str::lines
RECURSIVE split_lf(_)
split_lf(s) ==
    LET i == FirstLF(s, 1) IN
    IF i = 0 THEN <<s>>
    ELSE <<SubSeq(s, 1, i - 1)>> \o split_lf(SubSeq(s, i + 1, Len(s)))

from_string_split(string) == split_lf(string)

from_string(string) == lines(string)

count_lines(d) == Len(d)

get_line(d, line_number) ==
    IF line_number < Len(d) THEN d[line_number + 1] ELSE <<>>

get_line_length(d, line_number) ==
    IF line_number >= Len(d) THEN 0 ELSE Len(d[line_number + 1])

\* Vec::insert(index, element), index <= len
VecInsert(v, index, e) ==
    SubSeq(v, 1, index) \o <<e>> \o SubSeq(v, index + 1, Len(v))

\* Vec::remove(index), index < len
VecRemove(v, index) ==
    SubSeq(v, 1, index) \o SubSeq(v, index + 2, Len(v))

insert_line(d, line_number) == VecInsert(d, line_number, <<>>)

RECURSIVE fill_lines(_, _)
fill_lines(d, line_number) ==
    IF line_number + 1 > count_lines(d) \/ count_lines(d) = 0
    THEN fill_lines(Append(d, <<>>), line_number)
    ELSE d

RECURSIVE PadTo(_, _)
PadTo(line, x) == IF x > Len(line) THEN PadTo(Append(line, SPACE), x) ELSE line

\* mutant of write_char: the line is not padded up to the cursor column
write_char_nopad(d, c, character) ==
    LET x == c.x
        y == c.y
        filled == fill_lines(d, y)
        line == filled[y + 1]
        written == IF Len(line) > x THEN VecInsert(line, x, character)
                   ELSE Append(line, character)
    IN [data |-> [filled EXCEPT ![y + 1] = written],
        changes |-> ChangesLines(<<y>>)]

write_char(d, c, character) ==
    LET x == c.x
        y == c.y
        filled == fill_lines(d, y)
        line == PadTo(filled[y + 1], x)
        written == IF Len(line) > x THEN VecInsert(line, x, character)
                   ELSE Append(line, character)
    IN [data |-> [filled EXCEPT ![y + 1] = written],
        changes |-> ChangesLines(<<y>>)]

get_line_data_from_offset(d, line_number, offset) ==
    IF line_number < Len(d) /\ Len(d[line_number + 1]) >= offset
    THEN [some |-> TRUE,
          rest |-> SubSeq(d[line_number + 1], offset + 1, Len(d[line_number + 1]))]
    ELSE [some |-> FALSE, rest |-> <<>>]

truncate_line(d, line_number, offset) ==
    [d EXCEPT ![line_number + 1] =
        IF offset < Len(@) THEN SubSeq(@, 1, offset) ELSE @]

\* mutant of newline: the split row is not truncated
newline_notruncate(d, c) ==
    LET x == c.x
        y == c.y
        inserted == insert_line(fill_lines(d, y), y + 1)
        rest == get_line_data_from_offset(inserted, y, x)
    IN IF rest.some
       THEN [data |-> [inserted EXCEPT ![y + 2] = @ \o rest.rest],
             changes |-> ChangesBuffer]
       ELSE [data |-> inserted, changes |-> ChangesNone]

newline(d, c) ==
    LET x == c.x
        y == c.y
        inserted == insert_line(fill_lines(d, y), y + 1)
        rest == get_line_data_from_offset(inserted, y, x)
    IN IF rest.some
       THEN LET truncated == truncate_line(inserted, y, x)
            IN [data |-> [truncated EXCEPT ![y + 2] = @ \o rest.rest],
                changes |-> ChangesBuffer]
       ELSE [data |-> inserted, changes |-> ChangesNone]

remove_line(d, line_number) ==
    IF count_lines(d) > line_number THEN VecRemove(d, line_number) ELSE d

\* mutant of slurp_next_line: appends the line itself, not the next one
slurp_next_line_self(d, line_number) ==
    IF line_number < Len(d)
    THEN [panic |-> FALSE,
          data |-> [d EXCEPT ![line_number + 1] = @ \o get_line(d, line_number)]]
    ELSE [panic |-> TRUE, data |-> d]

\* self.data[line_number] panics when line_number is out of bounds
slurp_next_line(d, line_number) ==
    IF line_number < Len(d)
    THEN [panic |-> FALSE,
          data |-> [d EXCEPT ![line_number + 1] = @ \o get_line(d, line_number + 1)]]
    ELSE [panic |-> TRUE, data |-> d]

\* mutant of backspace: line.remove(x) in place of line.remove(x-1); the
\* removal panics when x is the line's length
backspace_remove_at_x(d, c) ==
    LET x == c.x
        y == c.y
        deletes == y < Len(d) /\ Len(d[y + 1]) + 1 > x /\ x > 0
        d1 == IF deletes /\ x < Len(d[y + 1])
              THEN [d EXCEPT ![y + 1] = VecRemove(@, x)] ELSE d
        r1 == IF deletes THEN ChangesBuffer ELSE ChangesNone
    IN IF deletes /\ x = Len(d[y + 1])
       THEN [panic |-> TRUE, data |-> d, changes |-> ChangesNone]
       ELSE IF x = 0 /\ y > 0
       THEN LET slurped == slurp_next_line(d1, y - 1)
            IN IF slurped.panic
               THEN [panic |-> TRUE, data |-> d1, changes |-> r1]
               ELSE [panic |-> FALSE, data |-> remove_line(slurped.data, y),
                     changes |-> ChangesBuffer]
       ELSE [panic |-> FALSE, data |-> d1, changes |-> r1]

\* mutant of backspace: the merge is guarded by x == 0 alone, so that at
\* row 0 the subtraction y - 1 overflows and panics
backspace_merge_unguarded(d, c) ==
    LET x == c.x
        y == c.y
        deletes == y < Len(d) /\ Len(d[y + 1]) + 1 > x /\ x > 0
        d1 == IF deletes THEN [d EXCEPT ![y + 1] = VecRemove(@, x - 1)] ELSE d
        r1 == IF deletes THEN ChangesBuffer ELSE ChangesNone
    IN IF x = 0
       THEN IF y = 0
            THEN [panic |-> TRUE, data |-> d1, changes |-> r1]
            ELSE LET slurped == slurp_next_line(d1, y - 1)
                 IN IF slurped.panic
                    THEN [panic |-> TRUE, data |-> d1, changes |-> r1]
                    ELSE [panic |-> FALSE, data |-> remove_line(slurped.data, y),
                          changes |-> ChangesBuffer]
       ELSE [panic |-> FALSE, data |-> d1, changes |-> r1]

\* mutant of backspace: the merge is guarded by y > 0 alone, so that a call
\* with x > 0 deletes a character and merges the rows as well
backspace_merge_any_x(d, c) ==
    LET x == c.x
        y == c.y
        deletes == y < Len(d) /\ Len(d[y + 1]) + 1 > x /\ x > 0
        d1 == IF deletes THEN [d EXCEPT ![y + 1] = VecRemove(@, x - 1)] ELSE d
        r1 == IF deletes THEN ChangesBuffer ELSE ChangesNone
    IN IF y > 0
       THEN LET slurped == slurp_next_line(d1, y - 1)
            IN IF slurped.panic
               THEN [panic |-> TRUE, data |-> d1, changes |-> r1]
               ELSE [panic |-> FALSE, data |-> remove_line(slurped.data, y),
                     changes |-> ChangesBuffer]
       ELSE [panic |-> FALSE, data |-> d1, changes |-> r1]

\* mutant of backspace: the character delete leaves the result None
backspace_delete_none(d, c) ==
    LET x == c.x
        y == c.y
        deletes == y < Len(d) /\ Len(d[y + 1]) + 1 > x /\ x > 0
        d1 == IF deletes THEN [d EXCEPT ![y + 1] = VecRemove(@, x - 1)] ELSE d
        r1 == ChangesNone
    IN IF x = 0 /\ y > 0
       THEN LET slurped == slurp_next_line(d1, y - 1)
            IN IF slurped.panic
               THEN [panic |-> TRUE, data |-> d1, changes |-> r1]
               ELSE [panic |-> FALSE, data |-> remove_line(slurped.data, y),
                     changes |-> ChangesBuffer]
       ELSE [panic |-> FALSE, data |-> d1, changes |-> r1]

backspace(d, c) ==
    LET x == c.x
        y == c.y
        deletes == y < Len(d) /\ Len(d[y + 1]) + 1 > x /\ x > 0
        d1 == IF deletes THEN [d EXCEPT ![y + 1] = VecRemove(@, x - 1)] ELSE d
        r1 == IF deletes THEN ChangesBuffer ELSE ChangesNone
    IN IF x = 0 /\ y > 0
       THEN LET slurped == slurp_next_line(d1, y - 1)
            IN IF slurped.panic
               THEN [panic |-> TRUE, data |-> d1, changes |-> r1]
               ELSE [panic |-> FALSE, data |-> remove_line(slurped.data, y),
                     changes |-> ChangesBuffer]
       ELSE [panic |-> FALSE, data |-> d1, changes |-> r1]

----------------------------------------------------------------------------
(* save_to_file: the string written is every line followed by one LF *)

\* mutant of save_to_file: the lines are joined by LF, none after the last
RECURSIVE save_to_file_join(_)
save_to_file_join(d) ==
    IF d = <<>> THEN <<>>
    ELSE IF Len(d) = 1 THEN Head(d)
    ELSE Head(d) \o <<LF>> \o save_to_file_join(Tail(d))

RECURSIVE save_to_file(_)
save_to_file(d) ==
    IF d = <<>> THEN <<>>
    ELSE Head(d) \o <<LF>> \o save_to_file(Tail(d))

----------------------------------------------------------------------------
(* get_next_cursor: the validity gate, then the move *)

\* mutant of valid_movement: Down is gated by y < count_lines
valid_movement_down(c, d, direction) ==
    LET x == c.x
        y == c.y
    IN CASE direction = "Up" -> y > 0
         [] direction = "Down" -> y < count_lines(d)
         [] direction = "Left" -> x > 0 \/ y > 0
         [] direction = "Right" -> x < get_line_length(d, y) \/ y < count_lines(d)
         [] OTHER -> FALSE

valid_movement(c, d, direction) ==
    LET x == c.x
        y == c.y
    IN CASE direction = "Up" -> y > 0
         [] direction = "Down" -> y + 1 < count_lines(d)
         [] direction = "Left" -> x > 0 \/ y > 0
         [] direction = "Right" -> x < get_line_length(d, y) \/ y < count_lines(d)
         [] OTHER -> FALSE

\* mutant of get_next_cursor: Left at column 0 lands on column 0 of the
\* previous line
get_next_cursor_left_home(c, d, direction) ==
    LET x == c.x
        y == c.y
    IN IF ~valid_movement(c, d, direction) THEN Cursor_new(x, y)
       ELSE CASE direction = "Left" ->
                   IF y > 0 /\ x = 0
                   THEN Cursor_new(0, y - 1)
                   ELSE Cursor_new(x - 1, y)
              [] direction = "Right" ->
                   IF y + 1 < count_lines(d) /\ x = get_line_length(d, y)
                   THEN Cursor_new(0, y + 1)
                   ELSE Cursor_new(x + 1, y)
              [] direction = "Up" ->
                   IF get_line_length(d, y - 1) < x
                   THEN Cursor_new(get_line_length(d, y - 1), y - 1)
                   ELSE Cursor_new(x, y - 1)
              [] direction = "Down" ->
                   IF get_line_length(d, y + 1) < x
                   THEN Cursor_new(get_line_length(d, y + 1), y + 1)
                   ELSE Cursor_new(x, y + 1)

\* mutant of get_next_cursor: Down keeps the column whatever the length of
\* the next line
get_next_cursor_down_noclamp(c, d, direction) ==
    LET x == c.x
        y == c.y
    IN IF ~valid_movement(c, d, direction) THEN Cursor_new(x, y)
       ELSE CASE direction = "Left" ->
                   IF y > 0 /\ x = 0
                   THEN Cursor_new(get_line_length(d, y - 1), y - 1)
                   ELSE Cursor_new(x - 1, y)
              [] direction = "Right" ->
                   IF y + 1 < count_lines(d) /\ x = get_line_length(d, y)
                   THEN Cursor_new(0, y + 1)
                   ELSE Cursor_new(x + 1, y)
              [] direction = "Up" ->
                   IF get_line_length(d, y - 1) < x
                   THEN Cursor_new(get_line_length(d, y - 1), y - 1)
                   ELSE Cursor_new(x, y - 1)
              [] direction = "Down" -> Cursor_new(x, y + 1)

get_next_cursor(c, d, direction) ==
    LET x == c.x
        y == c.y
    IN IF ~valid_movement(c, d, direction) THEN Cursor_new(x, y)
       ELSE CASE direction = "Left" ->
                   IF y > 0 /\ x = 0
                   THEN Cursor_new(get_line_length(d, y - 1), y - 1)
                   ELSE Cursor_new(x - 1, y)
              [] direction = "Right" ->
                   IF y + 1 < count_lines(d) /\ x = get_line_length(d, y)
                   THEN Cursor_new(0, y + 1)
                   ELSE Cursor_new(x + 1, y)
              [] direction = "Up" ->
                   IF get_line_length(d, y - 1) < x
                   THEN Cursor_new(get_line_length(d, y - 1), y - 1)
                   ELSE Cursor_new(x, y - 1)
              [] direction = "Down" ->
                   IF get_line_length(d, y + 1) < x
                   THEN Cursor_new(get_line_length(d, y + 1), y + 1)
                   ELSE Cursor_new(x, y + 1)

Directions == {"Up", "Down", "Left", "Right"}

----------------------------------------------------------------------------
(* apply_command: key is [kind |-> "Char", character |-> c], or a record   *)
(* with kind "Enter", "Backspace" or "Other".                              *)

\* mutant of apply_command: Enter keeps the cursor's column
apply_command_enter_column(key, d, c) ==
    CASE key.kind = "Char" ->
           LET r == write_char(d, c, key.character)
           IN [panic |-> FALSE, data |-> r.data, changes |-> r.changes,
               cursor |-> Cursor_new(c.x + 1, c.y)]
      [] key.kind = "Enter" ->
           LET r == newline(d, c)
           IN [panic |-> FALSE, data |-> r.data, changes |-> r.changes,
               cursor |-> Cursor_new(c.x, c.y + 1)]
      [] key.kind = "Backspace" ->
           LET previous_line_length ==
                   IF c.y > 0 THEN get_line_length(d, c.y - 1) ELSE 0
               r == backspace(d, c)
               new_cursor ==
                   IF c.x > 0 THEN Cursor_new(c.x - 1, c.y)
                   ELSE IF c.y > 0 THEN Cursor_new(previous_line_length, c.y - 1)
                   ELSE Cursor_new(c.x, c.y)
           IN [panic |-> r.panic, data |-> r.data, changes |-> r.changes,
               cursor |-> new_cursor]
      [] OTHER ->
           [panic |-> FALSE, data |-> d, changes |-> ChangesNone,
            cursor |-> Cursor_new(c.x, c.y)]

apply_command(key, d, c) ==
    CASE key.kind = "Char" ->
           LET r == write_char(d, c, key.character)
           IN [panic |-> FALSE, data |-> r.data, changes |-> r.changes,
               cursor |-> Cursor_new(c.x + 1, c.y)]
      [] key.kind = "Enter" ->
           LET r == newline(d, c)
           IN [panic |-> FALSE, data |-> r.data, changes |-> r.changes,
               cursor |-> Cursor_new(0, c.y + 1)]
      [] key.kind = "Backspace" ->
           LET previous_line_length ==
                   IF c.y > 0 THEN get_line_length(d, c.y - 1) ELSE 0
               r == backspace(d, c)
               new_cursor ==
                   IF c.x > 0 THEN Cursor_new(c.x - 1, c.y)
                   ELSE IF c.y > 0 THEN Cursor_new(previous_line_length, c.y - 1)
                   ELSE Cursor_new(c.x, c.y)
           IN [panic |-> r.panic, data |-> r.data, changes |-> r.changes,
               cursor |-> new_cursor]
      [] OTHER ->
           [panic |-> FALSE, data |-> d, changes |-> ChangesNone,
            cursor |-> Cursor_new(c.x, c.y)]

\* no Backspace command has followed a Char or Enter command
NoBase == [op |-> "none", data |-> Buffer_new, cursor |-> Cursor_new(0, 0)]

----------------------------------------------------------------------------
(* SpecLoad: Buffer::from_string applied to every text, then save_to_file  *)
(* applied to the loaded buffer.                                           *)

InitLoad ==
    /\ text \in Texts
    /\ data = Buffer_new
    /\ cursor = Cursor_new(0, 0)
    /\ vertical_offset = 0
    /\ changes = ChangesNone
    /\ saved = <<>>
    /\ panicked = FALSE
    /\ op = "none"
    /\ ch = SPACE
    /\ old_data = Buffer_new
    /\ old_cursor = Cursor_new(0, 0)
    /\ base = NoBase

Load ==
    /\ op = "none"
    /\ data' = from_string(text)
    /\ op' = "from_string"
    /\ UNCHANGED <<text, cursor, vertical_offset, changes, saved, panicked,
                   ch, old_data, old_cursor, base>>

Save ==
    /\ op = "from_string"
    /\ saved' = save_to_file(data)
    /\ op' = "save_to_file"
    /\ UNCHANGED <<text, data, cursor, vertical_offset, changes, panicked,
                   ch, old_data, old_cursor, base>>

NextLoad == Load \/ Save

SpecLoad == InitLoad /\ [][NextLoad]_vars

----------------------------------------------------------------------------
(* SpecBuffer: one Buffer operation or one get_next_cursor applied to      *)
(* every buffer built by Buffer::from_string from an enumerated text (the  *)
(* empty text gives the buffer of Buffer::new) and every enumerated        *)
(* cursor, as the unit tests of the repository apply them.  After a        *)
(* Key::Char or Key::Enter command a Key::Backspace command may follow.    *)

InitBuffer ==
    /\ text \in BufferTexts
    /\ data = from_string(text)
    /\ cursor \in Cursors
    /\ vertical_offset = 0
    /\ changes = ChangesNone
    /\ saved = <<>>
    /\ panicked = FALSE
    /\ op = "none"
    /\ ch = SPACE
    /\ old_data = data
    /\ old_cursor = cursor
    /\ base = NoBase

WriteChar(character) ==
    /\ op = "none"
    /\ LET r == write_char(data, cursor, character)
       IN /\ data' = r.data
          /\ changes' = r.changes
    /\ op' = "write_char"
    /\ ch' = character
    /\ old_data' = data
    /\ old_cursor' = cursor
    /\ UNCHANGED <<text, cursor, vertical_offset, saved, panicked, base>>

Newline ==
    /\ op = "none"
    /\ LET r == newline(data, cursor)
       IN /\ data' = r.data
          /\ changes' = r.changes
    /\ op' = "newline"
    /\ old_data' = data
    /\ old_cursor' = cursor
    /\ UNCHANGED <<text, cursor, vertical_offset, saved, panicked, ch, base>>

Backspace ==
    /\ op = "none"
    /\ LET r == backspace(data, cursor)
       IN /\ data' = r.data
          /\ changes' = r.changes
          /\ panicked' = r.panic
    /\ op' = "backspace"
    /\ old_data' = data
    /\ old_cursor' = cursor
    /\ UNCHANGED <<text, cursor, vertical_offset, saved, ch, base>>

Move(direction) ==
    /\ op = "none"
    /\ cursor' = get_next_cursor(cursor, data, direction)
    /\ op' = direction
    /\ old_data' = data
    /\ old_cursor' = cursor
    /\ UNCHANGED <<text, data, vertical_offset, changes, saved, panicked, ch,
                   base>>

\* apply_command on the enumerated buffer and cursor
Command(key) ==
    /\ op = "none"
    /\ LET r == apply_command(key, data, cursor)
       IN /\ data' = r.data
          /\ changes' = r.changes
          /\ panicked' = r.panic
          /\ cursor' = IF r.panic THEN cursor ELSE r.cursor
    /\ op' = key.kind
    /\ ch' = IF key.kind = "Char" THEN key.character ELSE ch
    /\ old_data' = data
    /\ old_cursor' = cursor
    /\ UNCHANGED <<text, vertical_offset, saved, base>>

\* apply_command(Key::Backspace) on the buffer and the cursor that a
\* Key::Char or Key::Enter command has just left
BackspaceAfter ==
    /\ op \in {"Char", "Enter"}
    /\ LET r == apply_command([kind |-> "Backspace"], data, cursor)
       IN /\ data' = r.data
          /\ changes' = r.changes
          /\ panicked' = r.panic
          /\ cursor' = IF r.panic THEN cursor ELSE r.cursor
    /\ op' = "Backspace"
    /\ base' = [op |-> op, data |-> old_data, cursor |-> old_cursor]
    /\ old_data' = data
    /\ old_cursor' = cursor
    /\ UNCHANGED <<text, vertical_offset, saved, ch>>

NextBuffer ==
    \/ \E character \in Chars : WriteChar(character)
    \/ Newline
    \/ Backspace
    \/ \E direction \in Directions : Move(direction)
    \/ \E character \in Chars :
          Command([kind |-> "Char", character |-> character])
    \/ Command([kind |-> "Enter"])
    \/ Command([kind |-> "Backspace"])
    \/ Command([kind |-> "Other"])
    \/ BackspaceAfter

SpecBuffer == InitBuffer /\ [][NextBuffer]_vars

----------------------------------------------------------------------------
(* Spec: main.  The buffer is loaded from the file's contents (a missing   *)
(* file gives Buffer::new(), the buffer from_string gives for the empty    *)
(* text), the cursor starts at (0,0); every iteration of the loop handles  *)
(* one key event, adjusts the scroll offset by at most one row and         *)
(* renders.  Edits that would leave the bounds below are not taken.  The   *)
(* strings file_contents of main and string of save_to_file are locals:    *)
(* text is empty once the buffer is built, saved holds the serialised      *)
(* buffer only in the state its Ctrl-s leaves.                             *)

Height == 1         \* display.height, the terminal's height
MaxEditLines == 3   \* most lines of the edited buffer
MaxEditLen == 2     \* longest line of the edited buffer
MaxEditChars == 3   \* most characters of the edited buffer, all lines together

\* characters of the file's contents, and characters typed
FileChars == {"a", LF}
KeyChars == {"a"}

RECURSIVE TotalLen(_)
TotalLen(d) == IF d = <<>> THEN 0 ELSE Len(Head(d)) + TotalLen(Tail(d))

InBounds(d, c) ==
    /\ count_lines(d) <= MaxEditLines
    /\ \A r \in 1..Len(d) : Len(d[r]) <= MaxEditLen
    /\ TotalLen(d) <= MaxEditChars
    /\ c.x <= MaxEditLen + 1
    /\ c.y <= MaxEditLines

FileTexts ==
    {t \in SeqsUpTo(FileChars, MaxText) :
        InBounds(from_string(t), Cursor_new(0, 0))}

\* mutant of scroll_adjust: scrolls down one row too late
scroll_adjust_late(c, offset) ==
    IF c.y > offset + Height THEN offset + 1
    ELSE IF c.y < offset THEN offset - 1
    ELSE offset

\* main, the scroll adjustment after the event
scroll_adjust(c, offset) ==
    IF c.y >= offset + Height THEN offset + 1
    ELSE IF c.y < offset THEN offset - 1
    ELSE offset

\* render_buffer_changes and render_cursor subtract the vertical offset
\* from a row: the subtraction overflows (a panic with overflow checks on)
\* when the row is above the offset
render_overflows(c, offset, buffer_changes) ==
    \/ c.y < offset
    \/ /\ buffer_changes.tag = "Lines"
       /\ \E k \in 1..Len(buffer_changes.lines) : buffer_changes.lines[k] < offset

Running == op # "quit" /\ ~panicked

Init ==
    /\ text = <<>>
    /\ \E file_contents \in FileTexts : data = from_string(file_contents)
    /\ cursor = Cursor_new(0, 0)
    /\ vertical_offset = 0
    /\ changes = ChangesNone
    /\ saved = <<>>
    /\ panicked = FALSE
    /\ op = "none"
    /\ ch = SPACE
    /\ old_data = data
    /\ old_cursor = cursor
    /\ base = NoBase

\* Key::Right, Key::Left, Key::Down, Key::Up
KeyArrow(direction) ==
    /\ Running
    /\ LET c == get_next_cursor(cursor, data, direction)
           offset == scroll_adjust(c, vertical_offset)
           buffer_changes == IF offset # vertical_offset THEN ChangesBuffer
                             ELSE ChangesNone
       IN /\ InBounds(data, c)
          /\ cursor' = c
          /\ vertical_offset' = offset
          /\ panicked' = render_overflows(c, offset, buffer_changes)
    /\ changes' = ChangesNone
    /\ op' = direction
    /\ saved' = <<>>
    /\ old_data' = data
    /\ old_cursor' = cursor
    /\ base' = NoBase
    /\ UNCHANGED <<text, data, ch>>

\* every key but the arrows, Ctrl-q and Ctrl-s: apply_command
KeyCommand(key) ==
    /\ Running
    /\ LET r == apply_command(key, data, cursor)
           c == IF r.panic THEN cursor ELSE r.cursor
           offset == IF r.panic THEN vertical_offset
                     ELSE scroll_adjust(c, vertical_offset)
           buffer_changes == IF offset # vertical_offset THEN ChangesBuffer
                             ELSE r.changes
       IN /\ InBounds(r.data, c)
          /\ data' = r.data
          /\ cursor' = c
          /\ changes' = r.changes
          /\ vertical_offset' = offset
          /\ panicked' = (r.panic \/ render_overflows(c, offset, buffer_changes))
    /\ op' = key.kind
    /\ ch' = IF key.kind = "Char" THEN key.character ELSE ch
    /\ saved' = <<>>
    /\ old_data' = data
    /\ old_cursor' = cursor
    /\ base' = IF key.kind = "Backspace" /\ op \in {"Char", "Enter"}
               THEN [op |-> op, data |-> old_data, cursor |-> old_cursor]
               ELSE NoBase
    /\ UNCHANGED <<text>>

\* Key::Ctrl('s')
KeySave ==
    /\ Running
    /\ saved' = save_to_file(data)
    /\ LET offset == scroll_adjust(cursor, vertical_offset)
       IN /\ vertical_offset' = offset
          /\ panicked' = render_overflows(cursor, offset, ChangesNone)
    /\ changes' = ChangesNone
    /\ op' = "save_to_file"
    /\ old_data' = data
    /\ old_cursor' = cursor
    /\ base' = NoBase
    /\ UNCHANGED <<text, data, cursor, ch>>

\* Key::Ctrl('q')
KeyQuit ==
    /\ Running
    /\ op' = "quit"
    /\ UNCHANGED <<text, data, cursor, vertical_offset, changes, saved,
                   panicked, ch, old_data, old_cursor, base>>

Next ==
    \/ \E direction \in Directions : KeyArrow(direction)
    \/ \E character \in KeyChars :
          KeyCommand([kind |-> "Char", character |-> character])
    \/ KeyCommand([kind |-> "Enter"])
    \/ KeyCommand([kind |-> "Backspace"])
    \/ KeyCommand([kind |-> "Other"])
    \/ KeySave
    \/ KeyQuit

Spec == Init /\ [][Next]_vars

----------------------------------------------------------------------------
(* Properties.  In a state reached by an operation, old_data and           *)
(* old_cursor are the buffer and the cursor the operation was called       *)
(* with, data and cursor are what it left, changes is what it returned.    *)

\* the line-terminator characters: LF, and the CR of a CR LF pair
IsTerminatorChar(c) == c \in {LF, CR}
NoTerminator(s) == \A i \in 1..Len(s) : ~IsTerminatorChar(s[i])
EndsWithTerminator(s) == Len(s) > 0 /\ IsTerminatorChar(s[Len(s)])
HasCRLF(s) == \E i \in 1..(Len(s) - 1) : s[i] = CR /\ s[i + 1] = LF
CountLF(s) == Cardinality({i \in 1..Len(s) : s[i] = LF})
Spaces(n) == [i \in 1..n |-> SPACE]
OldRow == get_line(old_data, old_cursor.y)

\* C1 as stated: for every string s without a line-terminator, the empty
\* string included, from_string(s) has exactly one line, equal to s.
C1_Original ==
    (op = "from_string" /\ NoTerminator(text))
        => (count_lines(data) = 1 /\ get_line(data, 0) = text)

\* C1 (amended): for every non-empty string s without a line-terminator,
\* from_string(s) has exactly one line, equal to s; from_string of the
\* empty string has no line at all.
C1_LoadOneLine ==
    (op = "from_string" /\ NoTerminator(text))
        => IF text = <<>> THEN count_lines(data) = 0
           ELSE count_lines(data) = 1 /\ get_line(data, 0) = text

C1_Witness ==
    /\ op = "from_string"
    /\ NoTerminator(text)
    /\ Len(text) >= 2
    /\ data = <<text>>

\* C2 as stated: for every text s that does not end with a line-terminator,
\* loading s and serialising gives s followed by one LF.
C2_Original ==
    (op = "save_to_file" /\ ~EndsWithTerminator(text))
        => saved = text \o <<LF>>

\* C2 (amended): for every non-empty text s that does not end with a
\* line-terminator and has no CR LF pair, loading s and serialising gives s
\* followed by one LF; the empty text serialises to the empty string; and
\* the serialised string has exactly one LF per line of the buffer.
C2_RoundTrip ==
    op = "save_to_file"
        => /\ CountLF(saved) = count_lines(data)
           /\ (~EndsWithTerminator(text) /\ ~HasCRLF(text))
                 => saved = IF text = <<>> THEN <<>> ELSE text \o <<LF>>

C2_Witness ==
    /\ op = "save_to_file"
    /\ ~EndsWithTerminator(text)
    /\ ~HasCRLF(text)
    /\ count_lines(data) >= 2
    /\ saved = text \o <<LF>>

\* the row write_char is to leave at the cursor: the old row padded with
\* spaces up to column x, with the character inserted at index x
C3_Row ==
    LET x == old_cursor.x
        padded == IF Len(OldRow) < x
                  THEN OldRow \o Spaces(x - Len(OldRow)) ELSE OldRow
    IN SubSeq(padded, 1, x) \o <<ch>> \o SubSeq(padded, x + 1, Len(padded))

\* C3: write_char leaves max(old line count, y+1) lines; row y is the old
\* row y (empty if it did not exist) padded with spaces up to x, with ch
\* inserted at index x; every other row reads as before (rows added by
\* fill_lines are empty); the result is Lines([y]).
C3_WriteChar ==
    op = "write_char"
        => /\ count_lines(data) = Max(count_lines(old_data), old_cursor.y + 1)
           /\ get_line(data, old_cursor.y) = C3_Row
           /\ \A r \in 0..(count_lines(data) - 1) :
                 r # old_cursor.y => get_line(data, r) = get_line(old_data, r)
           /\ changes = ChangesLines(<<old_cursor.y>>)

C3_Witness ==
    /\ op = "write_char"
    /\ old_cursor.y < count_lines(old_data)
    /\ Len(OldRow) >= 1
    /\ old_cursor.x > Len(OldRow)
    /\ count_lines(old_data) >= 2
    /\ Len(get_line(data, old_cursor.y)) = old_cursor.x + 1

\* what newline is to leave, but for the line count, when the split point
\* is valid
C4_Rows ==
    LET x == old_cursor.x
        y == old_cursor.y
    IN /\ changes = ChangesBuffer
       /\ get_line(data, y) = SubSeq(OldRow, 1, x)
       /\ get_line(data, y + 1) = SubSeq(OldRow, x + 1, Len(OldRow))
       /\ \A r \in 0..(y - 1) : get_line(data, r) = get_line(old_data, r)
       /\ \A r \in (y + 1)..(count_lines(old_data) - 1) :
             get_line(data, r + 1) = get_line(old_data, r)

\* C4 as stated: with x <= length of row y, newline returns Buffer, adds
\* exactly one line to the line count, splits row y at x into rows y and
\* y+1, keeps the rows before y and shifts the rows after y down by one.
C4_Original ==
    (op = "newline" /\ old_cursor.x <= Len(OldRow))
        => /\ count_lines(data) = count_lines(old_data) + 1
           /\ C4_Rows

\* C4 (amended): with x <= length of row y, newline returns Buffer, leaves
\* max(old line count, y+1) + 1 lines (one more than before exactly when
\* row y existed), splits row y at x into rows y and y+1, keeps the rows
\* before y and shifts the rows after y down by one.
C4_Newline ==
    (op = "newline" /\ old_cursor.x <= Len(OldRow))
        => /\ count_lines(data)
                = Max(count_lines(old_data), old_cursor.y + 1) + 1
           /\ C4_Rows

C4_Witness ==
    /\ op = "newline"
    /\ old_cursor.x > 0
    /\ old_cursor.x < Len(OldRow)
    /\ old_cursor.y + 1 < count_lines(old_data)
    /\ count_lines(data) = count_lines(old_data) + 1

\* C5 as stated: newline with x beyond the length of row y returns None and
\* changes neither the line count nor any row.
C5_Claim ==
    (op = "newline" /\ old_cursor.x > Len(OldRow))
        => (changes = ChangesNone /\ data = old_data)

\* row `new` is row `old` without its character at index i
RemovedAt(new, old, i) ==
    /\ Len(new) = Len(old) - 1
    /\ \A k \in 1..Len(new) : new[k] = IF k <= i THEN old[k] ELSE old[k + 1]

\* what backspace is to do when it deletes the character before the cursor
C6_Deleted ==
    /\ ~panicked
    /\ changes = ChangesBuffer
    /\ count_lines(data) = count_lines(old_data)
    /\ RemovedAt(get_line(data, old_cursor.y), OldRow, old_cursor.x - 1)
    /\ \A r \in 0..(count_lines(data) - 1) :
          r # old_cursor.y => get_line(data, r) = get_line(old_data, r)

\* C6 as stated: with x > 0 and row y existing, backspace removes the
\* character at index x-1 of row y, changes nothing else, returns Buffer.
C6_Original ==
    (op = "backspace" /\ old_cursor.x > 0
        /\ old_cursor.y < count_lines(old_data))
        => C6_Deleted

\* C6 (amended): with 0 < x <= length of row y and row y existing,
\* backspace removes the character at index x-1 of row y, changes nothing
\* else, returns Buffer.
C6_BackspaceChar ==
    (op = "backspace" /\ old_cursor.x > 0
        /\ old_cursor.y < count_lines(old_data)
        /\ old_cursor.x <= Len(OldRow))
        => C6_Deleted

C6_Witness ==
    /\ op = "backspace"
    /\ old_cursor.y < count_lines(old_data)
    /\ old_cursor.x > 0
    /\ old_cursor.x < Len(OldRow)
    /\ OldRow[old_cursor.x] # OldRow[old_cursor.x + 1]
    /\ count_lines(old_data) >= 2
    /\ changes = ChangesBuffer

\* what backspace is to do when it merges row y into row y-1
C7_Merged ==
    LET y == old_cursor.y
    IN /\ ~panicked
       /\ changes = ChangesBuffer
       /\ count_lines(data) = count_lines(old_data) - 1
       /\ get_line(data, y - 1)
             = get_line(old_data, y - 1) \o get_line(old_data, y)
       /\ \A r \in 0..(y - 2) : get_line(data, r) = get_line(old_data, r)
       /\ \A r \in y..(count_lines(data) - 1) :
             get_line(data, r) = get_line(old_data, r + 1)

\* C7 as stated: at (0, y) with y > 0, backspace appends row y to row y-1,
\* removes row y (one line less, later rows move up), returns Buffer.
C7_Original ==
    (op = "backspace" /\ old_cursor.x = 0 /\ old_cursor.y > 0)
        => C7_Merged

\* C7 (amended): at (0, y) with 0 < y < line count, backspace appends row y
\* to row y-1, removes row y (one line less, later rows move up), returns
\* Buffer.
C7_BackspaceMerge ==
    (op = "backspace" /\ old_cursor.x = 0 /\ old_cursor.y > 0
        /\ old_cursor.y < count_lines(old_data))
        => C7_Merged

C7_Witness ==
    /\ op = "backspace"
    /\ old_cursor.x = 0
    /\ old_cursor.y > 0
    /\ old_cursor.y + 1 < count_lines(old_data)
    /\ Len(OldRow) > 0
    /\ Len(get_line(old_data, old_cursor.y - 1)) > 0
    /\ count_lines(data) = count_lines(old_data) - 1

\* C8: backspace at (0, 0) returns None and leaves every row and the line
\* count as they were.
C8_BackspaceOrigin ==
    (op = "backspace" /\ old_cursor.x = 0 /\ old_cursor.y = 0)
        => (~panicked /\ changes = ChangesNone /\ data = old_data)

C8_Witness ==
    /\ op = "backspace"
    /\ old_cursor = Cursor_new(0, 0)
    /\ count_lines(old_data) >= 2
    /\ Len(get_line(old_data, 0)) > 0
    /\ changes = ChangesNone

\* C9 as stated: write_char, newline and backspace complete without a
\* panic for every buffer and every cursor.
C9_Claim ==
    op \in {"write_char", "newline", "backspace"} => ~panicked

\* the validity gate of get_next_cursor fails, as the claim lists the cases
C10_GateFails ==
    \/ op = "Up" /\ old_cursor.y = 0
    \/ op = "Down" /\ old_cursor.y + 1 >= count_lines(old_data)
    \/ op = "Left" /\ old_cursor.x = 0 /\ old_cursor.y = 0
    \/ /\ op = "Right"
       /\ old_cursor.x >= get_line_length(old_data, old_cursor.y)
       /\ old_cursor.y >= count_lines(old_data)

\* C10: get_next_cursor returns the cursor it was given whenever the
\* validity gate fails; on an empty buffer every direction from (0,0)
\* returns (0,0).
C10_GateNoop ==
    /\ C10_GateFails => cursor = old_cursor
    /\ (op \in Directions /\ old_data = <<>> /\ old_cursor = Cursor_new(0, 0))
          => cursor = Cursor_new(0, 0)

C10_Witness ==
    /\ op = "Down"
    /\ count_lines(old_data) >= 2
    /\ old_cursor.y + 1 = count_lines(old_data)
    /\ old_cursor.x > 0
    /\ cursor = old_cursor

Min(a, b) == IF a <= b THEN a ELSE b

\* C11 as stated: Right from the end of the last line, (line_length(y), y)
\* with y the last row, returns the cursor unchanged, and Right never
\* returns a column beyond the length of the cursor's row.
C11_Claim ==
    op = "Right"
        => /\ (/\ count_lines(old_data) > 0
               /\ old_cursor.y = count_lines(old_data) - 1
               /\ old_cursor.x = get_line_length(old_data, old_cursor.y))
                 => cursor = old_cursor
           /\ old_cursor.x <= get_line_length(old_data, old_cursor.y)
                 => cursor.x <= get_line_length(old_data, cursor.y)

\* C12: Left from (0, y), y > 0, returns (line_length(y-1), y-1); Right
\* from (line_length(y), y) with y+1 < line count returns (0, y+1); Left
\* from x > 0 returns (x-1, y); Right from x < line_length(y) returns
\* (x+1, y).
C12_HorizontalWrap ==
    LET x == old_cursor.x
        y == old_cursor.y
    IN /\ (op = "Left" /\ x = 0 /\ y > 0)
             => cursor = Cursor_new(get_line_length(old_data, y - 1), y - 1)
       /\ (op = "Left" /\ x > 0) => cursor = Cursor_new(x - 1, y)
       /\ (op = "Right" /\ x = get_line_length(old_data, y)
              /\ y + 1 < count_lines(old_data))
             => cursor = Cursor_new(0, y + 1)
       /\ (op = "Right" /\ x < get_line_length(old_data, y))
             => cursor = Cursor_new(x + 1, y)

C12_Witness ==
    /\ op = "Left"
    /\ old_cursor.x = 0
    /\ old_cursor.y > 0
    /\ old_cursor.y < count_lines(old_data)
    /\ get_line_length(old_data, old_cursor.y - 1) >= 2
    /\ cursor.y = old_cursor.y - 1
    /\ cursor.x >= 2

\* C13: a legal Up returns (min(x, line_length(y-1)), y-1), a legal Down
\* returns (min(x, line_length(y+1)), y+1): the column never exceeds the
\* destination row's length and is x when that row is at least x long.
C13_VerticalClamp ==
    LET x == old_cursor.x
        y == old_cursor.y
    IN /\ (op = "Up" /\ y > 0)
             => /\ cursor = Cursor_new(Min(x, get_line_length(old_data, y - 1)), y - 1)
                /\ cursor.x <= get_line_length(old_data, cursor.y)
       /\ (op = "Down" /\ y + 1 < count_lines(old_data))
             => /\ cursor = Cursor_new(Min(x, get_line_length(old_data, y + 1)), y + 1)
                /\ cursor.x <= get_line_length(old_data, cursor.y)

C13_Witness ==
    /\ op = "Down"
    /\ old_cursor.y + 1 < count_lines(old_data)
    /\ get_line_length(old_data, old_cursor.y + 1) > 0
    /\ old_cursor.x > get_line_length(old_data, old_cursor.y + 1)
    /\ cursor.x = get_line_length(old_data, old_cursor.y + 1)
    /\ cursor.y = old_cursor.y + 1

\* C14 as stated: the Backspace command returns the cursor (x-1, y) when
\* x > 0; (L, y-1) when x = 0 and y > 0, L the length row y-1 had before
\* the call, so that the cursor is on the first character that came from
\* the former row y; and the cursor it was given when x = 0 and y = 0.
C14_Claim ==
    LET x == old_cursor.x
        y == old_cursor.y
        L == get_line_length(old_data, y - 1)
    IN op = "Backspace"
          => /\ ~panicked
             /\ x > 0 => cursor = Cursor_new(x - 1, y)
             /\ (x = 0 /\ y > 0)
                   => /\ cursor = Cursor_new(L, y - 1)
                      /\ Len(OldRow) > 0
                            => /\ get_line_length(data, y - 1) > L
                               /\ get_line(data, y - 1)[L + 1] = OldRow[1]
             /\ (x = 0 /\ y = 0) => cursor = old_cursor

\* C15: the Enter command splits the line at the cursor and returns the
\* cursor (0, y+1); afterwards row y+1 exists and, when the split succeeded
\* (Buffer was returned), holds the text that was right of the cursor.
C15_Enter ==
    LET x == old_cursor.x
        y == old_cursor.y
    IN op = "Enter"
          => /\ ~panicked
             /\ cursor = Cursor_new(0, y + 1)
             /\ y + 1 < count_lines(data)
             /\ changes \in {ChangesBuffer, ChangesNone}
             /\ changes = ChangesBuffer <=> x <= Len(OldRow)
             /\ changes = ChangesBuffer
                   => /\ get_line(data, y + 1) = SubSeq(OldRow, x + 1, Len(OldRow))
                      /\ get_line(data, y) = SubSeq(OldRow, 1, x)

C15_Witness ==
    /\ op = "Enter"
    /\ old_cursor.x > 0
    /\ old_cursor.x < Len(OldRow)
    /\ old_cursor.y + 1 < count_lines(old_data)
    /\ cursor = Cursor_new(0, old_cursor.y + 1)
    /\ Len(get_line(data, cursor.y)) > 0

Commands == {"Char", "Enter", "Backspace", "Other"}

\* C16 as stated: a command that changes the line count returns Buffer; a
\* command that returns None or Lines leaves the line count as it was.
C16_Claim ==
    (op \in Commands /\ ~panicked)
        => (count_lines(data) # count_lines(old_data) => changes = ChangesBuffer)

\* the rows listed by the last BufferChanges::Lines
DirtyRows == {changes.lines[k] : k \in 1..Len(changes.lines)}

\* every row outside the set reads the same before and after
SameTextOutside(rows) ==
    \A r \in 0..Max(count_lines(data), count_lines(old_data)) :
        r \notin rows => get_line(data, r) = get_line(old_data, r)

\* C17: in every state the editor reaches by key events, a command that
\* returned None left the text of every row as it was, and a command that
\* returned Lines(S) left the text of every row outside S as it was.
C17_ChangesTrusted ==
    /\ changes.tag = "None" => SameTextOutside({})
    /\ changes.tag = "Lines" => SameTextOutside(DirtyRows)

C17_Witness ==
    /\ op = "Enter"
    /\ changes = ChangesNone
    /\ count_lines(data) > count_lines(old_data)
    /\ count_lines(old_data) >= 2

\* C18 as stated: after from_string and any write_char (with any
\* character), newline or backspace, no line of the buffer contains a
\* line-terminator character.
C18_Claim ==
    \A r \in 1..Len(data) :
        \A k \in 1..Len(data[r]) : ~IsTerminatorChar(data[r][k])

\* all characters of a buffer, row after row
RECURSIVE Flat(_)
Flat(d) == IF d = <<>> THEN <<>> ELSE Head(d) \o Flat(Tail(d))

\* exactly one character was removed: one row lost one character, the
\* other rows and the line count are as before
C19_OneCharRemoved ==
    /\ count_lines(data) = count_lines(old_data)
    /\ \E r \in 1..Len(old_data) :
          /\ \E i \in 0..(Len(old_data[r]) - 1) : RemovedAt(data[r], old_data[r], i)
          /\ \A q \in 1..Len(old_data) : q # r => data[q] = old_data[q]

\* exactly one row was removed and the characters, read row after row, are
\* the same
C19_OneRowRemoved ==
    /\ count_lines(data) = count_lines(old_data) - 1
    /\ Flat(data) = Flat(old_data)

\* C19: one backspace call with x > 0 never changes the line count, one
\* with x = 0 never removes a character, and every call either removes
\* exactly one character, or removes exactly one row and keeps the
\* concatenation of all characters, or changes nothing.
C19_BackspaceOneBranch ==
    op = "backspace"
        => /\ old_cursor.x > 0 => count_lines(data) = count_lines(old_data)
           /\ old_cursor.x = 0 => Flat(data) = Flat(old_data)
           /\ \/ data = old_data
              \/ C19_OneCharRemoved
              \/ C19_OneRowRemoved

C19_Witness ==
    /\ op = "backspace"
    /\ old_cursor.x = 0
    /\ old_cursor.y > 0
    /\ Len(OldRow) > 0
    /\ C19_OneRowRemoved
    /\ count_lines(data) >= 2

\* C20: in every state the editor reaches by key events the cursor's row
\* exists, or is row 0 of an empty buffer: cursor.y < max(1, line count).
C20_CursorRowExists ==
    cursor.y < Max(1, count_lines(data))

C20_Witness ==
    /\ op = "Down"
    /\ count_lines(data) >= 2
    /\ old_cursor.y = count_lines(data) - 1
    /\ cursor = old_cursor

\* C21: in every state the editor reaches by key events, the cursor's
\* column exceeds the length of its row only on the last row of the
\* buffer.
C21_PastEndOnlyOnLastRow ==
    cursor.x > get_line_length(data, cursor.y)
        => cursor.y = count_lines(data) - 1

C21_Witness ==
    /\ op = "Right"
    /\ count_lines(data) >= 2
    /\ cursor.y = count_lines(data) - 1
    /\ cursor.x > get_line_length(data, cursor.y)

\* C22: after every iteration of the event loop the cursor's row is inside
\* the visible window, vertical_offset <= cursor.y < vertical_offset +
\* height, the vertical offset is never below 0 and no subtraction of the
\* offset in render_cursor or render_buffer_changes has overflowed
\* (panicked records an overflow of the iteration's rendering).
C22_CursorInWindow ==
    /\ vertical_offset >= 0
    /\ vertical_offset <= cursor.y
    /\ cursor.y < vertical_offset + Height
    /\ ~panicked

C22_Witness ==
    /\ op \in {"Down", "Enter"}
    /\ vertical_offset = old_cursor.y - Height + 2
    /\ vertical_offset >= 1
    /\ cursor.y = vertical_offset + Height - 1

\* C23: for every buffer and cursor (x, y) with y < line count and
\* x <= length of row y, the Enter command immediately followed by the
\* Backspace command restores the buffer (same rows, same content) and the
\* cursor (x, y).
C23_EnterBackspace ==
    ( /\ op = "Backspace"
      /\ base.op = "Enter"
      /\ base.cursor.y < count_lines(base.data)
      /\ base.cursor.x <= get_line_length(base.data, base.cursor.y) )
        => /\ ~panicked
           /\ data = base.data
           /\ cursor = base.cursor

C23_Witness ==
    /\ op = "Backspace"
    /\ base.op = "Enter"
    /\ count_lines(base.data) >= 2
    /\ base.cursor.y < count_lines(base.data) - 1
    /\ base.cursor.x > 0
    /\ base.cursor.x < get_line_length(base.data, base.cursor.y)
    /\ count_lines(old_data) = count_lines(base.data) + 1
    /\ data = base.data
    /\ cursor = base.cursor

\* the cursor a Char command was given is on an existing row, at most at
\* its end
C24_InRow ==
    /\ base.cursor.y < count_lines(base.data)
    /\ base.cursor.x <= get_line_length(base.data, base.cursor.y)

\* the buffer before the Char command with the rows write_char creates up
\* to the cursor's row and the spaces it pads that row with up to the
\* cursor's column
C24_Padded ==
    LET filled == fill_lines(base.data, base.cursor.y)
    IN [filled EXCEPT ![base.cursor.y + 1] = PadTo(@, base.cursor.x)]

\* C24 as stated: in every state the editor reaches by key events, a typed
\* character immediately followed by Backspace restores the buffer (same
\* line count, same content in every row) and the cursor.
C24_Original ==
    (op = "Backspace" /\ base.op = "Char")
        => (data = base.data /\ cursor = base.cursor)

\* C24 (amended): in every state the editor reaches by key events, a typed
\* character immediately followed by Backspace restores the cursor; it
\* restores the buffer when the cursor was on an existing row, at most at
\* its end; otherwise (the empty buffer, or the cursor past the end of its
\* row) it leaves the row that write_char created or the spaces it padded
\* the row with.
C24_CharBackspace ==
    (op = "Backspace" /\ base.op = "Char")
        => /\ ~panicked
           /\ cursor = base.cursor
           /\ data = C24_Padded
           /\ C24_InRow => data = base.data
           /\ ~C24_InRow => data # base.data

C24_Witness ==
    /\ op = "Backspace"
    /\ base.op = "Char"
    /\ C24_InRow
    /\ get_line_length(base.data, base.cursor.y) >= 1
    /\ count_lines(old_data) = count_lines(base.data)
    /\ get_line_length(old_data, base.cursor.y)
         = get_line_length(base.data, base.cursor.y) + 1
    /\ data = base.data
    /\ cursor = base.cursor

====
